---- MODULE Spec2Model ----
(***************************************************************************)
(* Model of the voice-activity-detection service                           *)
(* (python-services/vad-service/app.py).                                   *)
(*                                                                         *)
(* The service keeps one process-wide table, vad_iterators, that maps a    *)
(* session id to a silero_vad.VADIterator, and one process-wide scorer,    *)
(* vad_model, that every iterator is built around.  Each HTTP handler is   *)
(* one action: Flask's development server handles a request to completion *)
(* before the handler returns.                                             *)
(*                                                                         *)
(* Probabilities are in percent (0.5 is 50).  Positions and durations are  *)
(* in samples, as the iterator keeps them and as /vad reports them         *)
(* (the handler never asks for seconds).                                   *)
(***************************************************************************)
EXTENDS Integers, Sequences, FiniteSets, TLC

VARIABLES
    vad_iterators,  \* app.py:22  session id -> VADIterator, or NoIter when absent
    model_ctx,      \* app.py:16  recurrent state of the one shared vad_model:
                    \*            "zero" after reset_states, else the session whose
                    \*            chunk it scored last
    last,           \* the request handled last, its response, and the state it found
    ev_life,        \* history: last boundary event of a session over its lifetime
    ev_since,       \* history: last boundary event since creation or the last reset
    run,            \* history: samples of sub-threshold chunks since the last chunk
                    \*          scored >= threshold (the spec's silence_run_length)
    after_reset,    \* history: the last call on the session was a reset that found it
    c_table,        \* vad_iterators under parallel requests: session id -> object
    c_heap,         \* the VADIterator objects under parallel requests
    c_thr,          \* the request threads: position, request, locals, response
    c_base,         \* history: the sessions before the parallel requests began
    asr_files,      \* asr-service: the asr_*.wav files in the temporary directory
    asr_tried,      \* history: the files os.remove was called on
    asr_count,      \* asr-service: requests received (one uuid each)
    asr_req,        \* asr-service: request -> where its handler is, its response
    asr_last,       \* asr-service: the request answered last and its response
    tts_files,      \* tts-service: the tts_*.wav files in the temporary directory
    tts_tried,      \* history: the files os.remove was called on
    tts_count,      \* tts-service: requests received (one uuid each)
    tts_req,        \* tts-service: request -> where its handler is, its response
    tts_last,       \* tts-service: the request answered last and its response
    tts_loop,       \* tts-service: request -> "none", "open" or "closed" event loop
    tts_stream      \* tts-service: request -> "none", "sending" or "closed" response

\* The state of the request-at-a-time view of the VAD service.
vad_vars == <<vad_iterators, last, ev_life, ev_since, run, after_reset>>

\* The state of the VAD service under parallel requests.
conc_vars == <<c_table, c_heap, c_thr, c_base>>

\* The state of the ASR service.
asr_vars == <<asr_files, asr_tried, asr_count, asr_req, asr_last>>

\* The state of the TTS service.
tts_vars == <<tts_files, tts_tried, tts_count, tts_req, tts_last, tts_loop, tts_stream>>

\* What a VAD request handled on its own leaves alone.
other_vars == <<c_table, c_heap, c_thr, c_base, asr_vars, tts_vars>>

\* What the statements of parallel VAD requests leave alone.
rest_vars == <<vad_vars, asr_vars, tts_vars>>

vars == <<vad_iterators, model_ctx, last, ev_life, ev_since, run, after_reset,
          c_table, c_heap, c_thr, c_base,
          asr_files, asr_tried, asr_count, asr_req, asr_last,
          tts_files, tts_tried, tts_count, tts_req, tts_last, tts_loop, tts_stream>>

----------------------------------------------------------------------------
(* Program constants                                                        *)

SAMPLING_RATE == 16000

THRESHOLD == 50

MIN_SILENCE_DURATION_MS == 500

\* VADIterator.__init__'s default speech_pad_ms: get_vad_iterator passes none.
SPEECH_PAD_MS == 30

\* VADIterator.__call__ ends speech below threshold - 0.15.
NEG_THRESHOLD_GAP == 15

----------------------------------------------------------------------------
(* Bounds                                                                   *)

\* Cursor bounds, in chunks of ChunkUnit samples (the shortest chunk of
\* Payloads, 3200 samples).  No /vad call is taken that would move the cursor of session
\* "default" past MaxChunks chunks, or that of another session past
\* MaxChunksOther: one session is followed through whole utterances, the
\* other far enough to start speech, be reset and share the model.
MaxChunks == 6

MaxChunksOther == 1

\* Requests the ASR service and the TTS service handle.
MaxAsrRequests == 4

MaxTtsRequests == 3


----------------------------------------------------------------------------
(* Inputs                                                                   *)

SessionIds == {"default", "s1"}

\* The session_id field of a request body: a session id, or absent.
SessionFields == {"absent", "s1"}

\* What the scorer returns for a chunk, in percent.
Probs == {10, 35, 50}

\* audio_data strings, as the number of base64 data characters followed by
\* the number of '=' characters.
\*   8534 + "==" : 6400 bytes, 3200 samples (200 ms)
\*   25600       : 19200 bytes, 9600 samples (600 ms)
\*   0           : the empty string, 0 samples
\*   4           : 3 bytes, not a whole number of int16 samples
\*   8534 + "="  : padding incomplete
\*   25601       : one character more than a multiple of 4
Payloads ==
    { [data |-> 8534,  pad |-> 2],
      [data |-> 25600, pad |-> 0],
      [data |-> 0,     pad |-> 0],
      [data |-> 4,     pad |-> 0],
      [data |-> 8534,  pad |-> 1],
      [data |-> 25601, pad |-> 0] }

NoIter == [absent |-> TRUE]

\* Request threads of the server (app.run serves each request in a thread).
Threads == {"t1", "t2"}

\* VADIterator objects: the one a session has before the parallel requests
\* begin, and the one each thread may construct.
ObjIds == {"o_default", "t1", "t2"}

\* A thread that has no request.
IdleThread ==
    [ pc |-> "idle", op |-> "none", sid |-> "none", n |-> 0, p |-> 0,
      it |-> "none", reg |-> 0,
      code |-> 0, status |-> "none", has_ts |-> FALSE, ts |-> 0 ]

----------------------------------------------------------------------------
(* Decoding                                                                 *)

\* base64.b64decode(s) with validate=False on data characters followed by
\* pad '=' characters: every 4 data characters give 3 bytes; 2 left over
\* give 1 byte and need "==", 3 left over give 2 bytes and need "=";
\* 1 left over, or missing padding, raises binascii.Error.  '=' after a
\* whole number of quads is skipped.
B64Ok(p) ==
    LET q == p.data % 4
    IN  \/ q = 0
        \/ q = 2 /\ p.pad >= 2
        \/ q = 3 /\ p.pad >= 1

B64Bytes(p) ==
    LET q == p.data % 4
    IN  3 * (p.data \div 4) + (IF q = 2 THEN 1 ELSE IF q = 3 THEN 2 ELSE 0)

\* np.frombuffer(audio_bytes, dtype=np.int16) raises ValueError unless the
\* buffer is a whole number of 2-byte elements; an empty buffer gives an
\* empty array.
FromBufferOk(nbytes) == nbytes % 2 = 0

FromBufferLen(nbytes) == nbytes \div 2

\* The payload passes b64decode and np.frombuffer.
Decodable(p) == B64Ok(p) /\ FromBufferOk(B64Bytes(p))

\* len(audio_int16) for a decodable payload.
Samples(p) == FromBufferLen(B64Bytes(p))

\* The shortest chunk of Payloads, and the cursor bound of a session.
ChunkUnit == Samples([data |-> 8534, pad |-> 2])

CursorBound(sid) == ChunkUnit * (IF sid = "default" THEN MaxChunks ELSE MaxChunksOther)

\* session_id = data.get('session_id', 'default')
ResolveSession(f) == IF f = "absent" THEN "default" ELSE f

----------------------------------------------------------------------------
(* silero_vad.VADIterator, as get_vad_iterator builds it and the handlers   *)
(* call it                                                                  *)

\* VADIterator(vad_model, threshold, sampling_rate, min_silence_duration_ms):
\* the sample counts are sampling_rate * ms / 1000, then reset_states().
NewVADIterator ==
    [ threshold           |-> THRESHOLD,
      sampling_rate       |-> SAMPLING_RATE,
      min_silence_samples |-> (SAMPLING_RATE * MIN_SILENCE_DURATION_MS) \div 1000,
      speech_pad_samples  |-> (SAMPLING_RATE * SPEECH_PAD_MS) \div 1000,
      triggered           |-> FALSE,
      temp_end            |-> 0,
      current_sample      |-> 0 ]

\* reset_states that keeps the old cursor as the silence mark.
ResetStates_MarksCursor(it) ==
    [it EXCEPT !.triggered = FALSE, !.temp_end = it.current_sample,
               !.current_sample = 0]

\* reset_states that leaves `triggered` as it was.
ResetStates_KeepsTriggered(it) == [it EXCEPT !.temp_end = 0, !.current_sample = 0]

\* VADIterator.reset_states(): triggered, temp_end and current_sample are
\* cleared; the thresholds stay.  (It also resets the shared model: see
\* the actions.)
ResetStates(it) ==
    [it EXCEPT !.triggered = FALSE, !.temp_end = 0, !.current_sample = 0]

\* The cursor set to the window instead of advanced by it.
Advance_Assigns(it, n) == [it EXCEPT !.current_sample = n]

\* VADIterator.__call__, first statement: the cursor advances by the window
\* before the model is asked.
Advance(it, n) == [it EXCEPT !.current_sample = @ + n]

Max0(x) == IF x < 0 THEN 0 ELSE x

\* Decide with the speech start not recorded in `triggered`.
Decide_StartNotLatched(it, n, p) ==
    LET it1 == IF p >= it.threshold /\ it.temp_end # 0
               THEN [it EXCEPT !.temp_end = 0] ELSE it
    IN  IF p >= it1.threshold /\ ~it1.triggered
        THEN [ it  |-> it1,
               out |-> [kind |-> "start",
                        ts   |-> Max0(it1.current_sample - it1.speech_pad_samples - n)] ]
        ELSE IF p < it1.threshold - NEG_THRESHOLD_GAP /\ it1.triggered
        THEN LET it2 == IF it1.temp_end = 0
                        THEN [it1 EXCEPT !.temp_end = it1.current_sample] ELSE it1
             IN  IF it2.current_sample - it2.temp_end < it2.min_silence_samples
                 THEN [ it |-> it2, out |-> [kind |-> "none", ts |-> 0] ]
                 ELSE [ it  |-> [it2 EXCEPT !.temp_end = 0, !.triggered = FALSE],
                        out |-> [kind |-> "end",
                                 ts   |-> it2.temp_end + it2.speech_pad_samples - n] ]
        ELSE [ it |-> it1, out |-> [kind |-> "none", ts |-> 0] ]

\* Decide with the silence counted from the start of the first low window
\* and no padding: temp_end = current_sample - n, end = temp_end.
Decide_EndUnpadded(it, n, p) ==
    LET it1 == IF p >= it.threshold /\ it.temp_end # 0
               THEN [it EXCEPT !.temp_end = 0] ELSE it
    IN  IF p >= it1.threshold /\ ~it1.triggered
        THEN [ it  |-> [it1 EXCEPT !.triggered = TRUE],
               out |-> [kind |-> "start",
                        ts   |-> Max0(it1.current_sample - it1.speech_pad_samples - n)] ]
        ELSE IF p < it1.threshold - NEG_THRESHOLD_GAP /\ it1.triggered
        THEN LET it2 == IF it1.temp_end = 0
                        THEN [it1 EXCEPT !.temp_end = it1.current_sample] ELSE it1
             IN  IF it2.current_sample - it2.temp_end < it2.min_silence_samples
                 THEN [ it |-> it2, out |-> [kind |-> "none", ts |-> 0] ]
                 ELSE [ it  |-> [it2 EXCEPT !.temp_end = 0, !.triggered = FALSE],
                        out |-> [kind |-> "end", ts |-> it2.temp_end - n] ]
        ELSE [ it |-> it1, out |-> [kind |-> "none", ts |-> 0] ]

\* Decide with the start reported at the cursor before the window, unpadded.
Decide_StartUnpadded(it, n, p) ==
    LET it1 == IF p >= it.threshold /\ it.temp_end # 0
               THEN [it EXCEPT !.temp_end = 0] ELSE it
    IN  IF p >= it1.threshold /\ ~it1.triggered
        THEN [ it  |-> [it1 EXCEPT !.triggered = TRUE],
               out |-> [kind |-> "start", ts |-> it1.current_sample - n] ]
        ELSE IF p < it1.threshold - NEG_THRESHOLD_GAP /\ it1.triggered
        THEN LET it2 == IF it1.temp_end = 0
                        THEN [it1 EXCEPT !.temp_end = it1.current_sample] ELSE it1
             IN  IF it2.current_sample - it2.temp_end < it2.min_silence_samples
                 THEN [ it |-> it2, out |-> [kind |-> "none", ts |-> 0] ]
                 ELSE [ it  |-> [it2 EXCEPT !.temp_end = 0, !.triggered = FALSE],
                        out |-> [kind |-> "end",
                                 ts   |-> it2.temp_end + it2.speech_pad_samples - n] ]
        ELSE [ it |-> it1, out |-> [kind |-> "none", ts |-> 0] ]

\* Decide with the end confirmed only after twice the minimum silence.
Decide_EndLate(it, n, p) ==
    LET it1 == IF p >= it.threshold /\ it.temp_end # 0
               THEN [it EXCEPT !.temp_end = 0] ELSE it
    IN  IF p >= it1.threshold /\ ~it1.triggered
        THEN [ it  |-> [it1 EXCEPT !.triggered = TRUE],
               out |-> [kind |-> "start",
                        ts   |-> Max0(it1.current_sample - it1.speech_pad_samples - n)] ]
        ELSE IF p < it1.threshold - NEG_THRESHOLD_GAP /\ it1.triggered
        THEN LET it2 == IF it1.temp_end = 0
                        THEN [it1 EXCEPT !.temp_end = it1.current_sample] ELSE it1
             IN  IF it2.current_sample - it2.temp_end < 2 * it2.min_silence_samples
                 THEN [ it |-> it2, out |-> [kind |-> "none", ts |-> 0] ]
                 ELSE [ it  |-> [it2 EXCEPT !.temp_end = 0, !.triggered = FALSE],
                        out |-> [kind |-> "end",
                                 ts   |-> it2.temp_end + it2.speech_pad_samples - n] ]
        ELSE [ it |-> it1, out |-> [kind |-> "none", ts |-> 0] ]

\* VADIterator.__call__ after the model returned speech_prob p for a window
\* of n samples; `it` has its cursor advanced already.  Gives the iterator
\* afterwards and the returned dict (kind "none" is Python's None).
Decide(it, n, p) ==
    LET it1 == IF p >= it.threshold /\ it.temp_end # 0
               THEN [it EXCEPT !.temp_end = 0] ELSE it
    IN  IF p >= it1.threshold /\ ~it1.triggered
        THEN [ it  |-> [it1 EXCEPT !.triggered = TRUE],
               out |-> [kind |-> "start",
                        ts   |-> Max0(it1.current_sample - it1.speech_pad_samples - n)] ]
        ELSE IF p < it1.threshold - NEG_THRESHOLD_GAP /\ it1.triggered
        THEN LET it2 == IF it1.temp_end = 0
                        THEN [it1 EXCEPT !.temp_end = it1.current_sample] ELSE it1
             IN  IF it2.current_sample - it2.temp_end < it2.min_silence_samples
                 THEN [ it |-> it2, out |-> [kind |-> "none", ts |-> 0] ]
                 ELSE [ it  |-> [it2 EXCEPT !.temp_end = 0, !.triggered = FALSE],
                        out |-> [kind |-> "end",
                                 ts   |-> it2.temp_end + it2.speech_pad_samples - n] ]
        ELSE [ it |-> it1, out |-> [kind |-> "none", ts |-> 0] ]

----------------------------------------------------------------------------
(* Handlers                                                                 *)

\* get_vad_iterator(session_id): the table after the lookup.
GetVadIterator(tbl, sid) ==
    IF tbl[sid] = NoIter THEN [tbl EXCEPT ![sid] = NewVADIterator] ELSE tbl

\* The shared model after get_vad_iterator(sid): a new VADIterator calls
\* reset_states() in its constructor, which resets the model it was given.
ModelAfterLookup(tbl, sid, ctx) == IF tbl[sid] = NoIter THEN "zero" ELSE ctx

\* The request handled last and its response.  invalid: the audio_data is
\* not valid base64, not a whole number of samples, or no sample at all;
\* called: the handler reached the shared model; n: the samples it decoded;
\* p: the probability the model returned (0 when it returned none); fresh: the call before it
\* on this session was a reset that found the session; repeat: the request
\* is a reset and the request before it was a reset naming the same id.
Last(op, sid, code, status, has_ts, ts, invalid, called, n, p) ==
    [ op |-> op, sid |-> sid, code |-> code, status |-> status,
      has_ts |-> has_ts, ts |-> ts, invalid |-> invalid, called |-> called,
      n |-> n, p |-> p,
      fresh |-> IF sid \in SessionIds THEN after_reset[sid] ELSE FALSE,
      repeat |-> op = "reset" /\ last.op = "reset" /\ last.sid = sid ]

\* No parallel request is in flight.
ConcIdle ==
    /\ c_table = [s \in SessionIds |-> "none"]
    /\ c_heap = [o \in ObjIds |-> NoIter]
    /\ c_thr = [t \in Threads |-> IdleThread]
    /\ c_base = [s \in SessionIds |-> NoIter]

\* No request has been handled one at a time.
VadIdle ==
    /\ vad_iterators = [s \in SessionIds |-> NoIter]
    /\ last = [ op |-> "init", sid |-> "none", code |-> 0, status |-> "none",
                has_ts |-> FALSE, ts |-> 0, invalid |-> FALSE, called |-> FALSE,
                n |-> 0, p |-> 0, fresh |-> FALSE, repeat |-> FALSE ]
    /\ ev_life = [s \in SessionIds |-> "none"]
    /\ ev_since = [s \in SessionIds |-> "none"]
    /\ run = [s \in SessionIds |-> 0]
    /\ after_reset = [s \in SessionIds |-> FALSE]

\* asr-service at start-up: nothing staged.
AsrIdle ==
    /\ asr_files = {}
    /\ asr_tried = {}
    /\ asr_count = 0
    /\ asr_req = [r \in 1..MaxAsrRequests |-> [pc |-> "none", code |-> 0]]
    /\ asr_last = [op |-> "init", code |-> 0, file |-> 0]

\* tts-service at start-up: nothing synthesised.
TtsIdle ==
    /\ tts_files = {}
    /\ tts_tried = {}
    /\ tts_count = 0
    /\ tts_req = [r \in 1..MaxTtsRequests |->
                    [pc |-> "none", text |-> "none", code |-> 0, synth |-> FALSE]]
    /\ tts_last = [op |-> "init", text |-> "none", code |-> 0, file |-> 0,
                    synth |-> FALSE, installed |-> FALSE]
    /\ tts_loop = [r \in 1..MaxTtsRequests |-> "none"]
    /\ tts_stream = [r \in 1..MaxTtsRequests |-> "none"]

Init ==
    /\ ConcIdle
    /\ VadIdle
    /\ model_ctx = "zero"
    /\ AsrIdle
    /\ TtsIdle

\* GET /health
Health ==
    /\ last' = Last("health", "none", 200, "healthy", FALSE, 0, FALSE, FALSE, 0, 0)
    /\ UNCHANGED <<vad_iterators, model_ctx, ev_life, ev_since, run, after_reset>>
    /\ UNCHANGED other_vars

\* POST /vad with a JSON body that has no audio_data field: 400.
VadMissingField(field) ==
    /\ last' = Last("vad", ResolveSession(field), 400, "error", FALSE, 0, FALSE, FALSE, 0, 0)
    /\ UNCHANGED <<vad_iterators, model_ctx, ev_life, ev_since, run, after_reset>>
    /\ UNCHANGED other_vars

\* VadUndecodable with the session resolved before the payload is decoded.
VadUndecodable_ResolvesFirst(payload, field) ==
    /\ ~Decodable(payload)
    /\ last' = Last("vad", ResolveSession(field), 500, "error", FALSE, 0, TRUE, FALSE, 0, 0)
    /\ vad_iterators' = GetVadIterator(vad_iterators, ResolveSession(field))
    /\ model_ctx' = ModelAfterLookup(vad_iterators, ResolveSession(field), model_ctx)
    /\ UNCHANGED <<ev_life, ev_since, run, after_reset>>
    /\ UNCHANGED other_vars

\* POST /vad whose audio_data b64decode or np.frombuffer rejects: the
\* exception reaches the handler's except clause, 500.
VadUndecodable(payload, field) ==
    /\ ~Decodable(payload)
    /\ last' = Last("vad", ResolveSession(field), 500, "error", FALSE, 0, TRUE, FALSE, 0, 0)
    /\ UNCHANGED <<vad_iterators, model_ctx, ev_life, ev_since, run, after_reset>>
    /\ UNCHANGED other_vars

\* POST /vad with a payload that decodes to n samples (n may be 0), when the
\* shared model raises: the session was resolved or created and the iterator
\* advanced its cursor before it asked the model; the exception reaches the
\* handler's except clause, 500.
VadScorerFails(payload, field) ==
    LET n   == Samples(payload)
        sid == ResolveSession(field)
        tbl == GetVadIterator(vad_iterators, sid)
        adv == Advance(tbl[sid], n)
    IN  /\ Decodable(payload)
        /\ adv.current_sample <= CursorBound(sid)
        /\ vad_iterators' = [tbl EXCEPT ![sid] = adv]
        /\ model_ctx' = ModelAfterLookup(vad_iterators, sid, model_ctx)
        /\ last' = Last("vad", sid, 500, "error", FALSE, 0, n = 0, TRUE, n, 0)
        /\ after_reset' = [after_reset EXCEPT ![sid] = FALSE]
        /\ UNCHANGED <<ev_life, ev_since, run>>
        /\ UNCHANGED other_vars

\* POST /vad with a payload that decodes to n > 0 samples, when the shared
\* model returns probability p: the iterator's answer becomes the response.
\* (The model raises for an empty window; that is VadScorerFails.)
VadDetect(payload, field, p) ==
    LET n   == Samples(payload)
        sid == ResolveSession(field)
        tbl == GetVadIterator(vad_iterators, sid)
        adv == Advance(tbl[sid], n)
        res == Decide(adv, n, p)
    IN  /\ Decodable(payload)
        /\ n > 0
        /\ adv.current_sample <= CursorBound(sid)
        /\ vad_iterators' = [tbl EXCEPT ![sid] = res.it]
        /\ model_ctx' = sid
        /\ last' = Last("vad", sid, 200,
                        IF res.out.kind = "none" THEN "null" ELSE res.out.kind,
                        res.out.kind # "none", res.out.ts, FALSE, TRUE, n, p)
        /\ ev_life' = IF res.out.kind = "none" THEN ev_life
                      ELSE [ev_life EXCEPT ![sid] = res.out.kind]
        /\ ev_since' = IF res.out.kind = "none" THEN ev_since
                       ELSE [ev_since EXCEPT ![sid] = res.out.kind]
        /\ run' = [run EXCEPT ![sid] = IF p >= THRESHOLD THEN 0 ELSE @ + n]
        /\ after_reset' = [after_reset EXCEPT ![sid] = FALSE]
        /\ UNCHANGED other_vars

\* ResetVad through get_vad_iterator: an unknown session is created.
ResetVad_Creates(field) ==
    LET sid == ResolveSession(field)
        tbl == GetVadIterator(vad_iterators, sid)
    IN  /\ vad_iterators' = [tbl EXCEPT ![sid] = ResetStates(tbl[sid])]
        /\ model_ctx' = "zero"
        /\ ev_since' = [ev_since EXCEPT ![sid] = "none"]
        /\ run' = [run EXCEPT ![sid] = 0]
        /\ after_reset' = [after_reset EXCEPT ![sid] = TRUE]
        /\ last' = Last("reset", sid, 200, "reset", FALSE, 0, FALSE, FALSE, 0, 0)
        /\ UNCHANGED ev_life
        /\ UNCHANGED other_vars

\* POST /reset
ResetVad(field) ==
    LET sid == ResolveSession(field)
        pre == vad_iterators[sid]
    IN  /\ IF pre # NoIter
           THEN /\ vad_iterators' = [vad_iterators EXCEPT ![sid] = ResetStates(pre)]
                /\ model_ctx' = "zero"
                /\ ev_since' = [ev_since EXCEPT ![sid] = "none"]
                /\ run' = [run EXCEPT ![sid] = 0]
                /\ after_reset' = [after_reset EXCEPT ![sid] = TRUE]
           ELSE UNCHANGED <<vad_iterators, model_ctx, ev_since, run, after_reset>>
        /\ last' = Last("reset", sid, 200, "reset", FALSE, 0, FALSE, FALSE, 0, 0)
        /\ UNCHANGED ev_life
        /\ UNCHANGED other_vars

\* Bodies of POST /reset that make reset_vad raise: a session_id that cannot
\* be a dictionary key (a JSON array or object), and a body that is JSON but
\* not an object.
ResetFailures == {"unhashable_id", "not_object"}

\* POST /reset, lines 76-79 and 85-87: data.get or the membership test
\* raises; the except clause answers 500 and nothing was touched.
ResetVadFails(body) ==
    /\ last' = Last("reset", IF body = "unhashable_id" THEN "unhashable" ELSE "none",
                    500, "error", FALSE, 0, FALSE, FALSE, 0, 0)
    /\ UNCHANGED <<vad_iterators, model_ctx, ev_life, ev_since, run, after_reset>>
    /\ UNCHANGED other_vars

Next ==
    \/ Health
    \/ \E f \in SessionFields : VadMissingField(f)
    \/ \E pl \in Payloads, f \in SessionFields : VadUndecodable(pl, f)
    \/ \E pl \in Payloads, f \in SessionFields : VadScorerFails(pl, f)
    \/ \E pl \in Payloads, f \in SessionFields, p \in Probs : VadDetect(pl, f, p)
    \/ \E f \in SessionFields : ResetVad(f)
    \/ \E body \in ResetFailures : ResetVadFails(body)

Spec == Init /\ [][Next]_vars

----------------------------------------------------------------------------
(* The VAD handlers under parallel requests                                 *)
(*                                                                          *)
(* app.run serves every request in its own thread and the handlers take no  *)
(* lock, so the statements of two calls interleave.  Each action below is   *)
(* one statement of vad_detect, get_vad_iterator, VADIterator.__call__ or   *)
(* reset_vad, run by thread t.  Each thread handles one request, and the    *)
(* requests start from a state the service reaches one request at a time.   *)

\* Chunks and probabilities of the parallel requests.
ConcPayloads == { [data |-> 8534, pad |-> 2] }

ConcProbs == {10, 50}

\* Session "default" before the parallel requests: absent, after one chunk
\* of ChunkUnit samples scored as silence or as speech, or in speech with a
\* silence mark two chunks old.
\* One /vad call of ChunkUnit samples scored p, handled alone.
After(it, p) == Decide(Advance(it, ChunkUnit), ChunkUnit, p).it

ConcStarts ==
    { NoIter,
      After(NewVADIterator, 10),
      After(NewVADIterator, 50),
      After(After(After(After(NewVADIterator, 50), 10), 10), 10) }

InitConc ==
    /\ VadIdle
    /\ \E it \in ConcStarts :
         /\ c_base = [s \in SessionIds |-> IF s = "default" THEN it ELSE NoIter]
         /\ c_heap = [o \in ObjIds |-> IF o = "o_default" THEN it ELSE NoIter]
         /\ c_table = [s \in SessionIds |->
                         IF s = "default" /\ it # NoIter THEN "o_default" ELSE "none"]
         /\ model_ctx = IF it # NoIter THEN "default" ELSE "zero"
    /\ c_thr = [t \in Threads |-> IdleThread]
    /\ AsrIdle
    /\ TtsIdle

Respond(t, code, status, has_ts, ts) ==
    [c_thr EXCEPT ![t].pc = "done", ![t].reg = 0, ![t].code = code,
                  ![t].status = status, ![t].has_ts = has_ts, ![t].ts = ts]

\* vad_detect, lines 47-56: the request is decoded and its session id read.
CStartVad(t, field, payload, p) ==
    /\ c_thr[t].pc = "idle"
    /\ Decodable(payload) /\ Samples(payload) > 0
    /\ c_thr' = [c_thr EXCEPT ![t].pc = "lookup", ![t].op = "vad",
                              ![t].sid = ResolveSession(field),
                              ![t].n = Samples(payload), ![t].p = p]
    /\ UNCHANGED <<c_table, c_heap, c_base, model_ctx>>
    /\ UNCHANGED rest_vars

\* get_vad_iterator, line 27: if session_id not in vad_iterators.
CLookup(t) ==
    /\ c_thr[t].pc = "lookup"
    /\ c_thr' = [c_thr EXCEPT ![t].pc =
                   IF c_table[c_thr[t].sid] = "none" THEN "create" ELSE "fetch"]
    /\ UNCHANGED <<c_table, c_heap, c_base, model_ctx>>
    /\ UNCHANGED rest_vars

\* get_vad_iterator, lines 28-33, right-hand side: VADIterator(...) builds a
\* new iterator; its constructor resets the shared model.
CConstruct(t) ==
    /\ c_thr[t].pc = "create"
    /\ c_heap' = [c_heap EXCEPT ![t] = NewVADIterator]
    /\ model_ctx' = "zero"
    /\ c_thr' = [c_thr EXCEPT ![t].pc = "store"]
    /\ UNCHANGED <<c_table, c_base>>
    /\ UNCHANGED rest_vars

\* get_vad_iterator, line 28, the assignment: vad_iterators[session_id] = ...
CStore(t) ==
    /\ c_thr[t].pc = "store"
    /\ c_table' = [c_table EXCEPT ![c_thr[t].sid] = t]
    /\ c_thr' = [c_thr EXCEPT ![t].pc = "fetch"]
    /\ UNCHANGED <<c_heap, c_base, model_ctx>>
    /\ UNCHANGED rest_vars

\* get_vad_iterator, line 34: return vad_iterators[session_id].
CFetch(t) ==
    /\ c_thr[t].pc = "fetch"
    /\ c_thr' = [c_thr EXCEPT ![t].pc = "advance", ![t].it = c_table[c_thr[t].sid]]
    /\ UNCHANGED <<c_table, c_heap, c_base, model_ctx>>
    /\ UNCHANGED rest_vars

\* The statements of VADIterator.__call__ that thread t runs on the iterator
\* it fetched.  Every read and every write of an attribute of the shared
\* iterator is a step of its own; reg holds the value the thread read.
Goto(t, pc) == [c_thr EXCEPT ![t].pc = pc]

Load(t, pc, v) == [c_thr EXCEPT ![t].pc = pc, ![t].reg = v]

Iter(t) == c_heap[c_thr[t].it]

\* The thread is inside VADIterator.__call__.
InCall(t) ==
    c_thr[t].op = "vad"
    /\ c_thr[t].pc \notin {"idle", "lookup", "create", "store", "fetch", "advance", "done"}

\* CAdvanceRead that waits while another thread is inside the same iterator.
CAdvanceRead_Locked(t) ==
    /\ c_thr[t].pc = "advance"
    /\ \A u \in Threads \ {t} : ~(InCall(u) /\ c_thr[u].it = c_thr[t].it)
    /\ c_thr' = Load(t, "advance_w", Iter(t).current_sample)
    /\ UNCHANGED <<c_table, c_heap, c_base, model_ctx>>
    /\ UNCHANGED rest_vars

\* self.current_sample += window_size_samples: the cursor is read.
CAdvanceRead(t) ==
    /\ c_thr[t].pc = "advance"
    /\ c_thr' = Load(t, "advance_w", Iter(t).current_sample)
    /\ UNCHANGED <<c_table, c_heap, c_base, model_ctx>>
    /\ UNCHANGED rest_vars

\* self.current_sample += window_size_samples: the sum is written.
CAdvanceWrite(t) ==
    /\ c_thr[t].pc = "advance_w"
    /\ c_heap' = [c_heap EXCEPT ![c_thr[t].it].current_sample = c_thr[t].reg + c_thr[t].n]
    /\ c_thr' = Load(t, "score", 0)
    /\ UNCHANGED <<c_table, c_base, model_ctx>>
    /\ UNCHANGED rest_vars

\* speech_prob = self.model(x, self.sampling_rate).item()
CScore(t) ==
    /\ c_thr[t].pc = "score"
    /\ model_ctx' = c_thr[t].sid
    /\ c_thr' = Goto(t, "clear_test")
    /\ UNCHANGED <<c_table, c_heap, c_base>>
    /\ UNCHANGED rest_vars

\* VADIterator.__call__ and vad_detect, lines 69-71: the shared model raises;
\* the cursor stays advanced, nothing is decided and the except clause
\* answers 500.
CScoreFails(t) ==
    /\ c_thr[t].pc = "score"
    /\ c_thr' = Respond(t, 500, "error", FALSE, 0)
    /\ UNCHANGED <<c_table, c_heap, c_base, model_ctx>>
    /\ UNCHANGED rest_vars

\* if (speech_prob >= self.threshold) and self.temp_end:
CClearTest(t) ==
    /\ c_thr[t].pc = "clear_test"
    /\ c_thr' = IF c_thr[t].p >= Iter(t).threshold /\ Iter(t).temp_end # 0
                THEN Goto(t, "clear_w") ELSE Goto(t, "start_test")
    /\ UNCHANGED <<c_table, c_heap, c_base, model_ctx>>
    /\ UNCHANGED rest_vars

\*     self.temp_end = 0
CClearWrite(t) ==
    /\ c_thr[t].pc = "clear_w"
    /\ c_heap' = [c_heap EXCEPT ![c_thr[t].it].temp_end = 0]
    /\ c_thr' = Goto(t, "start_test")
    /\ UNCHANGED <<c_table, c_base, model_ctx>>
    /\ UNCHANGED rest_vars

\* if (speech_prob >= self.threshold) and not self.triggered:
CStartTest(t) ==
    /\ c_thr[t].pc = "start_test"
    /\ c_thr' = IF c_thr[t].p >= Iter(t).threshold /\ ~Iter(t).triggered
                THEN Goto(t, "start_w") ELSE Goto(t, "end_test")
    /\ UNCHANGED <<c_table, c_heap, c_base, model_ctx>>
    /\ UNCHANGED rest_vars

\*     self.triggered = True
CStartWrite(t) ==
    /\ c_thr[t].pc = "start_w"
    /\ c_heap' = [c_heap EXCEPT ![c_thr[t].it].triggered = TRUE]
    /\ c_thr' = Goto(t, "start_r")
    /\ UNCHANGED <<c_table, c_base, model_ctx>>
    /\ UNCHANGED rest_vars

\*     speech_start = max(0, self.current_sample - self.speech_pad_samples
\*                           - window_size_samples); return {'start': ...}
\* and vad_detect, lines 61-63.
CStartReturn(t) ==
    /\ c_thr[t].pc = "start_r"
    /\ c_thr' = Respond(t, 200, "start", TRUE,
                        Max0(Iter(t).current_sample - Iter(t).speech_pad_samples
                             - c_thr[t].n))
    /\ UNCHANGED <<c_table, c_heap, c_base, model_ctx>>
    /\ UNCHANGED rest_vars

\* if (speech_prob < self.threshold - 0.15) and self.triggered:
\* else return None, and vad_detect, line 67.
CEndTest(t) ==
    /\ c_thr[t].pc = "end_test"
    /\ c_thr' = IF c_thr[t].p < Iter(t).threshold - NEG_THRESHOLD_GAP /\ Iter(t).triggered
                THEN Goto(t, "mark_test") ELSE Respond(t, 200, "null", FALSE, 0)
    /\ UNCHANGED <<c_table, c_heap, c_base, model_ctx>>
    /\ UNCHANGED rest_vars

\*     if not self.temp_end:
CMarkTest(t) ==
    /\ c_thr[t].pc = "mark_test"
    /\ c_thr' = IF Iter(t).temp_end = 0 THEN Goto(t, "mark_r") ELSE Goto(t, "silence_r")
    /\ UNCHANGED <<c_table, c_heap, c_base, model_ctx>>
    /\ UNCHANGED rest_vars

\*         self.temp_end = self.current_sample: the cursor is read.
CMarkRead(t) ==
    /\ c_thr[t].pc = "mark_r"
    /\ c_thr' = Load(t, "mark_w", Iter(t).current_sample)
    /\ UNCHANGED <<c_table, c_heap, c_base, model_ctx>>
    /\ UNCHANGED rest_vars

\*         self.temp_end = self.current_sample: the mark is written.
CMarkWrite(t) ==
    /\ c_thr[t].pc = "mark_w"
    /\ c_heap' = [c_heap EXCEPT ![c_thr[t].it].temp_end = c_thr[t].reg]
    /\ c_thr' = Load(t, "silence_r", 0)
    /\ UNCHANGED <<c_table, c_base, model_ctx>>
    /\ UNCHANGED rest_vars

\*     if self.current_sample - self.temp_end < self.min_silence_samples:
\* the cursor is read.
CSilenceRead(t) ==
    /\ c_thr[t].pc = "silence_r"
    /\ c_thr' = Load(t, "silence_test", Iter(t).current_sample)
    /\ UNCHANGED <<c_table, c_heap, c_base, model_ctx>>
    /\ UNCHANGED rest_vars

\*     if self.current_sample - self.temp_end < self.min_silence_samples:
\* the mark is read and compared; return None and vad_detect, line 67.
CSilenceTest(t) ==
    /\ c_thr[t].pc = "silence_test"
    /\ c_thr' = IF c_thr[t].reg - Iter(t).temp_end < Iter(t).min_silence_samples
                THEN Respond(t, 200, "null", FALSE, 0)
                ELSE Load(t, "end_r", 0)
    /\ UNCHANGED <<c_table, c_heap, c_base, model_ctx>>
    /\ UNCHANGED rest_vars

\*         speech_end = self.temp_end + self.speech_pad_samples
\*                      - window_size_samples: the mark is read.
CEndRead(t) ==
    /\ c_thr[t].pc = "end_r"
    /\ c_thr' = Load(t, "end_w", Iter(t).temp_end)
    /\ UNCHANGED <<c_table, c_heap, c_base, model_ctx>>
    /\ UNCHANGED rest_vars

\*         self.temp_end = 0
CEndWrite(t) ==
    /\ c_thr[t].pc = "end_w"
    /\ c_heap' = [c_heap EXCEPT ![c_thr[t].it].temp_end = 0]
    /\ c_thr' = Goto(t, "end_ret")
    /\ UNCHANGED <<c_table, c_base, model_ctx>>
    /\ UNCHANGED rest_vars

\*         self.triggered = False; return {'end': ...}
\* and vad_detect, lines 64-65.
CEndReturn(t) ==
    /\ c_thr[t].pc = "end_ret"
    /\ c_heap' = [c_heap EXCEPT ![c_thr[t].it].triggered = FALSE]
    /\ c_thr' = Respond(t, 200, "end", TRUE,
                        c_thr[t].reg + Iter(t).speech_pad_samples - c_thr[t].n)
    /\ UNCHANGED <<c_table, c_base, model_ctx>>
    /\ UNCHANGED rest_vars

\* reset_vad, lines 76-77 and 85-87: the body is JSON but not an object and
\* data.get raises; the except clause answers 500.
CStartResetFails(t) ==
    /\ c_thr[t].pc = "idle"
    /\ c_thr' = [Respond(t, 500, "error", FALSE, 0) EXCEPT ![t].op = "reset"]
    /\ UNCHANGED <<c_table, c_heap, c_base, model_ctx>>
    /\ UNCHANGED rest_vars

\* reset_vad, lines 76-77: the session id is read; it may be a value that
\* cannot be a dictionary key.
CStartReset(t, field) ==
    /\ c_thr[t].pc = "idle"
    /\ c_thr' = [c_thr EXCEPT ![t].pc = "rcheck", ![t].op = "reset",
                              ![t].sid = ResolveSession(field)]
    /\ UNCHANGED <<c_table, c_heap, c_base, model_ctx>>
    /\ UNCHANGED rest_vars

\* reset_vad, line 79: if session_id in vad_iterators; line 83 when not;
\* lines 85-87 when the id cannot be hashed and the test raises.
CResetCheck(t) ==
    /\ c_thr[t].pc = "rcheck"
    /\ c_thr' = IF c_thr[t].sid \notin SessionIds
                THEN Respond(t, 500, "error", FALSE, 0)
                ELSE IF c_table[c_thr[t].sid] # "none"
                     THEN [c_thr EXCEPT ![t].pc = "rdo"]
                     ELSE Respond(t, 200, "reset", FALSE, 0)
    /\ UNCHANGED <<c_table, c_heap, c_base, model_ctx>>
    /\ UNCHANGED rest_vars

\* reset_vad, line 80: vad_iterators[session_id] is looked up.
CResetFetch(t) ==
    /\ c_thr[t].pc = "rdo"
    /\ c_thr' = [c_thr EXCEPT ![t].pc = "rmodel", ![t].it = c_table[c_thr[t].sid]]
    /\ UNCHANGED <<c_table, c_heap, c_base, model_ctx>>
    /\ UNCHANGED rest_vars

\* VADIterator.reset_states, first statement: self.model.reset_states().
CResetModel(t) ==
    /\ c_thr[t].pc = "rmodel"
    /\ model_ctx' = "zero"
    /\ c_thr' = [c_thr EXCEPT ![t].pc = "rtriggered"]
    /\ UNCHANGED <<c_table, c_heap, c_base>>
    /\ UNCHANGED rest_vars

\* VADIterator.reset_states: self.triggered = False.
CResetTriggered(t) ==
    /\ c_thr[t].pc = "rtriggered"
    /\ c_heap' = [c_heap EXCEPT ![c_thr[t].it].triggered = FALSE]
    /\ c_thr' = [c_thr EXCEPT ![t].pc = "rtemp_end"]
    /\ UNCHANGED <<c_table, c_base, model_ctx>>
    /\ UNCHANGED rest_vars

\* VADIterator.reset_states: self.temp_end = 0.
CResetTempEnd(t) ==
    /\ c_thr[t].pc = "rtemp_end"
    /\ c_heap' = [c_heap EXCEPT ![c_thr[t].it].temp_end = 0]
    /\ c_thr' = [c_thr EXCEPT ![t].pc = "rcursor"]
    /\ UNCHANGED <<c_table, c_base, model_ctx>>
    /\ UNCHANGED rest_vars

\* VADIterator.reset_states: self.current_sample = 0; reset_vad, line 83.
CResetCursor(t) ==
    /\ c_thr[t].pc = "rcursor"
    /\ c_heap' = [c_heap EXCEPT ![c_thr[t].it].current_sample = 0]
    /\ c_thr' = Respond(t, 200, "reset", FALSE, 0)
    /\ UNCHANGED <<c_table, c_base, model_ctx>>
    /\ UNCHANGED rest_vars

\* The next statement of the request thread t is handling.
CStep(t) ==
    \/ CLookup(t) \/ CConstruct(t) \/ CStore(t) \/ CFetch(t)
    \/ CAdvanceRead(t) \/ CAdvanceWrite(t) \/ CScore(t) \/ CScoreFails(t)
    \/ CClearTest(t) \/ CClearWrite(t)
    \/ CStartTest(t) \/ CStartWrite(t) \/ CStartReturn(t)
    \/ CEndTest(t) \/ CMarkTest(t) \/ CMarkRead(t) \/ CMarkWrite(t)
    \/ CSilenceRead(t) \/ CSilenceTest(t)
    \/ CEndRead(t) \/ CEndWrite(t) \/ CEndReturn(t)
    \/ CResetCheck(t) \/ CResetFetch(t) \/ CResetModel(t)
    \/ CResetTriggered(t) \/ CResetTempEnd(t) \/ CResetCursor(t)

NextConc ==
    \/ \E t \in Threads, f \in SessionFields, pl \in ConcPayloads, p \in ConcProbs :
          CStartVad(t, f, pl, p)
    \/ \E t \in Threads : CStartResetFails(t)
    \/ \E t \in Threads, f \in SessionFields \cup {"unhashable"} : CStartReset(t, f)
    \/ \E t \in Threads : CLookup(t)
    \/ \E t \in Threads : CConstruct(t)
    \/ \E t \in Threads : CStore(t)
    \/ \E t \in Threads : CFetch(t)
    \/ \E t \in Threads : CAdvanceRead(t)
    \/ \E t \in Threads : CAdvanceWrite(t)
    \/ \E t \in Threads : CScore(t)
    \/ \E t \in Threads : CScoreFails(t)
    \/ \E t \in Threads : CClearTest(t)
    \/ \E t \in Threads : CClearWrite(t)
    \/ \E t \in Threads : CStartTest(t)
    \/ \E t \in Threads : CStartWrite(t)
    \/ \E t \in Threads : CStartReturn(t)
    \/ \E t \in Threads : CEndTest(t)
    \/ \E t \in Threads : CMarkTest(t)
    \/ \E t \in Threads : CMarkRead(t)
    \/ \E t \in Threads : CMarkWrite(t)
    \/ \E t \in Threads : CSilenceRead(t)
    \/ \E t \in Threads : CSilenceTest(t)
    \/ \E t \in Threads : CEndRead(t)
    \/ \E t \in Threads : CEndWrite(t)
    \/ \E t \in Threads : CEndReturn(t)
    \/ \E t \in Threads : CResetCheck(t)
    \/ \E t \in Threads : CResetFetch(t)
    \/ \E t \in Threads : CResetModel(t)
    \/ \E t \in Threads : CResetTriggered(t)
    \/ \E t \in Threads : CResetTempEnd(t)
    \/ \E t \in Threads : CResetCursor(t)

SpecConc == InitConc /\ [][NextConc]_vars

----------------------------------------------------------------------------
(* asr-service: POST /recognize                                             *)
(*                                                                          *)
(* app.run serves every request in its own thread, so a request that waits  *)
(* in model.generate is overtaken by others.  Request r is the r-th one     *)
(* received; its temporary file is file r.                                  *)

\* The VAD service, which an ASR or TTS request does not touch.
vad_service_vars == <<vad_vars, model_ctx, conc_vars>>

\* GET /health of asr-service.
AsrHealth ==
    /\ asr_last' = [op |-> "health", code |-> 200, file |-> 0]
    /\ UNCHANGED <<asr_files, asr_tried, asr_count, asr_req>>
    /\ UNCHANGED <<vad_service_vars, tts_vars>>

\* recognize, lines 36-41: no 'file' part, or a part with an empty filename.
AsrNoUpload(why) ==
    LET r == asr_count + 1
    IN  /\ asr_count < MaxAsrRequests
        /\ asr_count' = r
        /\ asr_req' = [asr_req EXCEPT ![r] = [pc |-> "done", code |-> 400]]
        /\ asr_last' = [op |-> why, code |-> 400, file |-> 0]
        /\ UNCHANGED <<asr_files, asr_tried>>
        /\ UNCHANGED <<vad_service_vars, tts_vars>>

\* recognize, lines 43-45 and 71-73: file.save raises; the file exists if it
\* had been opened for writing.
AsrSaveFails(opened) ==
    LET r == asr_count + 1
    IN  /\ asr_count < MaxAsrRequests
        /\ asr_count' = r
        /\ asr_files' = IF opened THEN asr_files \cup {r} ELSE asr_files
        /\ asr_req' = [asr_req EXCEPT ![r] = [pc |-> "done", code |-> 500]]
        /\ asr_last' = [op |-> "save_fails", code |-> 500,
                        file |-> IF opened THEN r ELSE 0]
        /\ UNCHANGED asr_tried
        /\ UNCHANGED <<vad_service_vars, tts_vars>>

\* recognize, lines 43-49: the upload is saved to the temporary file and
\* model.generate is called.
AsrSave ==
    LET r == asr_count + 1
    IN  /\ asr_count < MaxAsrRequests
        /\ asr_count' = r
        /\ asr_files' = asr_files \cup {r}
        /\ asr_req' = [asr_req EXCEPT ![r].pc = "generate"]
        /\ UNCHANGED <<asr_tried, asr_last>>
        /\ UNCHANGED <<vad_service_vars, tts_vars>>

\* recognize, lines 49-57 and 71-73: model.generate, or
\* rich_transcription_postprocess(res[0]["text"]) after it, raises; the
\* handler answers 500 from the except clause, which removes nothing.
AsrModelFails(r, stage) ==
    /\ asr_req[r].pc = "generate"
    /\ asr_req' = [asr_req EXCEPT ![r] = [pc |-> "done", code |-> 500]]
    /\ asr_last' = [op |-> stage, code |-> 500, file |-> r]
    /\ UNCHANGED <<asr_files, asr_tried, asr_count>>
    /\ UNCHANGED <<vad_service_vars, tts_vars>>

\* recognize, lines 49-69: recognised, post-processed, os.remove called (its
\* failure is swallowed), 200.
AsrRecognized(r, removed) ==
    /\ asr_req[r].pc = "generate"
    /\ asr_files' = IF removed THEN asr_files \ {r} ELSE asr_files
    /\ asr_tried' = asr_tried \cup {r}
    /\ asr_req' = [asr_req EXCEPT ![r] = [pc |-> "done", code |-> 200]]
    /\ asr_last' = [op |-> "recognized", code |-> 200, file |-> r]
    /\ UNCHANGED asr_count
    /\ UNCHANGED <<vad_service_vars, tts_vars>>

NextAsr ==
    \/ AsrHealth
    \/ \E why \in {"no_file", "empty_filename"} : AsrNoUpload(why)
    \/ \E opened \in BOOLEAN : AsrSaveFails(opened)
    \/ AsrSave
    \/ \E r \in 1..MaxAsrRequests, stage \in {"generate", "postprocess"} :
          AsrModelFails(r, stage)
    \/ \E r \in 1..MaxAsrRequests, removed \in BOOLEAN : AsrRecognized(r, removed)

SpecAsr == Init /\ [][NextAsr]_vars

----------------------------------------------------------------------------
(* tts-service: POST /tts                                                   *)
(*                                                                          *)
(* Requests are served in threads as above; a request waits inside          *)
(* loop.run_until_complete while edge-tts streams the audio.  Request r is  *)
(* the r-th one received; its temporary file is file r.                     *)

\* The text field of a request body: absent, "", blanks only, or words.
RejectedTexts == {"missing", "empty", "blank"}

TtsLast(op, text, code, file, synth, installed) ==
    [ op |-> op, text |-> text, code |-> code, file |-> file,
      synth |-> synth, installed |-> installed ]

TtsReq(pc, text, code, synth) ==
    [pc |-> pc, text |-> text, code |-> code, synth |-> synth]

\* GET /health of tts-service.
TtsHealth ==
    /\ tts_last' = TtsLast("health", "none", 200, 0, FALSE, FALSE)
    /\ UNCHANGED <<tts_files, tts_tried, tts_count, tts_req, tts_loop, tts_stream>>
    /\ UNCHANGED <<vad_service_vars, asr_vars>>

\* TtsReject with the event loop created before the text is validated.
TtsReject_LoopFirst(text) ==
    LET r == tts_count + 1
    IN  /\ tts_count < MaxTtsRequests
        /\ tts_count' = r
        /\ tts_loop' = [tts_loop EXCEPT ![r] = "closed"]
        /\ tts_req' = [tts_req EXCEPT ![r] = TtsReq("done", text, 400, FALSE)]
        /\ tts_last' = TtsLast("reject", text, 400, 0, FALSE, TRUE)
        /\ UNCHANGED <<tts_files, tts_tried, tts_stream>>
        /\ UNCHANGED <<vad_service_vars, asr_vars>>

\* text_to_speech, lines 36-45: 'text' not in data, or not text.strip().
TtsReject(text) ==
    LET r == tts_count + 1
    IN  /\ tts_count < MaxTtsRequests
        /\ tts_count' = r
        /\ tts_req' = [tts_req EXCEPT ![r] = TtsReq("done", text, 400, FALSE)]
        /\ tts_last' = TtsLast("reject", text, 400, 0, FALSE, FALSE)
        /\ UNCHANGED <<tts_files, tts_tried, tts_loop, tts_stream>>
        /\ UNCHANGED <<vad_service_vars, asr_vars>>

\* text_to_speech, lines 36-44 and 72-74: the body is not a JSON object or
\* text is not a string; the membership test or text.strip() raises.
TtsBadBody(kind) ==
    LET r == tts_count + 1
    IN  /\ tts_count < MaxTtsRequests
        /\ tts_count' = r
        /\ tts_req' = [tts_req EXCEPT ![r] = TtsReq("done", kind, 500, FALSE)]
        /\ tts_last' = TtsLast("bad_body", kind, 500, 0, FALSE, FALSE)
        /\ UNCHANGED <<tts_files, tts_tried, tts_loop, tts_stream>>
        /\ UNCHANGED <<vad_service_vars, asr_vars>>

\* text_to_speech, lines 36-51: the text is accepted, a new event loop is
\* created and installed and run_until_complete starts generate_tts.
TtsLoopStart ==
    LET r == tts_count + 1
    IN  /\ tts_count < MaxTtsRequests
        /\ tts_count' = r
        /\ tts_loop' = [tts_loop EXCEPT ![r] = "open"]
        /\ tts_req' = [tts_req EXCEPT ![r] = TtsReq("run", "words", 0, TRUE)]
        /\ UNCHANGED <<tts_files, tts_tried, tts_last, tts_stream>>
        /\ UNCHANGED <<vad_service_vars, asr_vars>>

\* generate_tts, lines 24-25: Communicate(text, voice) is built and
\* communicate.save opens the output file, then waits for the audio.
TtsSaveOpens(r) ==
    /\ tts_req[r].pc = "run"
    /\ tts_files' = tts_files \cup {r}
    /\ tts_req' = [tts_req EXCEPT ![r].pc = "save"]
    /\ UNCHANGED <<tts_tried, tts_count, tts_last, tts_loop, tts_stream>>
    /\ UNCHANGED <<vad_service_vars, asr_vars>>

\* text_to_speech, lines 51 and 72-74: generate_tts raises inside
\* run_until_complete (in Communicate(...), or in communicate.save after it
\* has opened the output file); loop.close() on line 52 is skipped and the
\* except clause answers 500.
TtsSynthFails(r) ==
    /\ tts_req[r].pc \in {"run", "save"}
    /\ tts_req' = [tts_req EXCEPT ![r].pc = "done", ![r].code = 500]
    /\ tts_last' = TtsLast("synth_fails", "words", 500,
                           IF tts_req[r].pc = "save" THEN r ELSE 0, TRUE, TRUE)
    /\ UNCHANGED <<tts_files, tts_tried, tts_count, tts_loop, tts_stream>>
    /\ UNCHANGED <<vad_service_vars, asr_vars>>

\* text_to_speech, lines 51-61 and 72-74: synthesis wrote the file, the loop
\* is closed, send_file raises; the except clause answers 500.
TtsSendFails(r) ==
    /\ tts_req[r].pc = "save"
    /\ tts_loop' = [tts_loop EXCEPT ![r] = "closed"]
    /\ tts_req' = [tts_req EXCEPT ![r].pc = "done", ![r].code = 500]
    /\ tts_last' = TtsLast("send_fails", "words", 500, r, TRUE, TRUE)
    /\ UNCHANGED <<tts_files, tts_tried, tts_count, tts_stream>>
    /\ UNCHANGED <<vad_service_vars, asr_vars>>

\* text_to_speech, lines 51-70: synthesis wrote the file, the loop is closed,
\* the response streams the file and cleanup is registered on its close.
TtsSynthesized(r) ==
    /\ tts_req[r].pc = "save"
    /\ tts_loop' = [tts_loop EXCEPT ![r] = "closed"]
    /\ tts_stream' = [tts_stream EXCEPT ![r] = "sending"]
    /\ tts_req' = [tts_req EXCEPT ![r].pc = "done", ![r].code = 200]
    /\ tts_last' = TtsLast("synthesized", "words", 200, r, TRUE, TRUE)
    /\ UNCHANGED <<tts_files, tts_tried, tts_count>>
    /\ UNCHANGED <<vad_service_vars, asr_vars>>

\* cleanup, lines 63-68: the server closes the response of request r and the
\* callback calls os.remove, whose failure is swallowed.
TtsClose(r, removed) ==
    /\ tts_stream[r] = "sending"
    /\ tts_stream' = [tts_stream EXCEPT ![r] = "closed"]
    /\ tts_tried' = tts_tried \cup {r}
    /\ tts_files' = IF removed THEN tts_files \ {r} ELSE tts_files
    /\ UNCHANGED <<tts_count, tts_req, tts_last, tts_loop>>
    /\ UNCHANGED <<vad_service_vars, asr_vars>>

NextTts ==
    \/ TtsHealth
    \/ \E text \in RejectedTexts : TtsReject(text)
    \/ \E kind \in {"no_json", "not_string"} : TtsBadBody(kind)
    \/ TtsLoopStart
    \/ \E r \in 1..MaxTtsRequests : TtsSaveOpens(r)
    \/ \E r \in 1..MaxTtsRequests : TtsSynthFails(r)
    \/ \E r \in 1..MaxTtsRequests : TtsSendFails(r)
    \/ \E r \in 1..MaxTtsRequests : TtsSynthesized(r)
    \/ \E r \in 1..MaxTtsRequests, removed \in BOOLEAN : TtsClose(r, removed)

SpecTts == Init /\ [][NextTts]_vars

----------------------------------------------------------------------------
(* Properties                                                               *)

Present(s) == vad_iterators[s] # NoIter

\* The cursor a call on session s finds: 0 when the call creates the session.
CursorBefore(s) == IF Present(s) THEN vad_iterators[s].current_sample ELSE 0

MinSilenceSamples == (SAMPLING_RATE * MIN_SILENCE_DURATION_MS) \div 1000

SpeechPadSamples == (SAMPLING_RATE * SPEECH_PAD_MS) \div 1000

\* The step is a /vad call on session s that got a probability from the
\* model: every handler writes `last`, and only such a call writes this shape.
\* last'.n is the chunk's length and last'.p the probability.
Scored(s) ==
    last'.op = "vad" /\ last'.sid = s /\ last'.called /\ last'.code = 200

\* C1 as stated: over the whole lifetime of a session, resets included, a
\* start is never followed by another start and an end always follows a
\* start (the first event is a start).
C1_LifetimeAlternation ==
    [][\A s \in SessionIds :
         Scored(s) =>
           /\ last'.status = "start" => ev_life[s] # "start"
           /\ last'.status = "end"   => ev_life[s] = "start"]_vars

\* C1 amended: between two resets of a session (and from its creation to its
\* first reset) the events alternate start, end, start, ...: a start follows
\* no event or an end, an end follows a start.
C1_AlternationBetweenResets ==
    [][\A s \in SessionIds :
         Scored(s) =>
           /\ last'.status = "start" => ev_since[s] # "start"
           /\ last'.status = "end"   => ev_since[s] = "start"]_vars

\* A start and then an end were returned to session "default" with no reset
\* in between.
C1_Witness ==
    /\ last.op = "vad" /\ last.status = "end" /\ last.sid = "default"
    /\ ev_since["default"] = "end"
    /\ ev_life["default"] = "end"

\* C2 as stated: an end is returned only when the session was in SPEECH and
\* the sub-threshold chunks since the last chunk at or above threshold, this
\* one included, add up to at least min_silence_duration.
C2_EndOnlyAfterMinSilence ==
    [][\A s \in SessionIds :
         Scored(s) /\ last'.status = "end" =>
           /\ Present(s) /\ vad_iterators[s].triggered
           /\ run'[s] >= MinSilenceSamples]_vars

\* C3 as stated: in SPEECH, the call whose sub-threshold chunk brings the
\* run of sub-threshold chunks to min_silence_duration returns end and
\* leaves the session in SILENCE.
C3_EndWhenRunReachesMin ==
    [][\A s \in SessionIds :
         ( /\ Scored(s)
           /\ Present(s) /\ vad_iterators[s].triggered
           /\ last'.p < THRESHOLD
           /\ run[s] < MinSilenceSamples
           /\ run'[s] >= MinSilenceSamples )
         => last'.status = "end" /\ ~vad_iterators'[s].triggered]_vars

\* C3 amended: while triggered, a chunk scored below threshold - 0.15 returns
\* end, and clears triggered in the same call, exactly when a silence mark
\* temp_end is already set and the cursor after the chunk is at least
\* min_silence_samples past it; the mark is set (to the cursor after the
\* chunk) by the first such chunk since the last chunk at or above threshold,
\* so a run of such chunks gives one end.
C3_EndWhenMarkIsMinSilenceOld ==
    [][\A s \in SessionIds :
         ( /\ Scored(s)
           /\ Present(s) /\ vad_iterators[s].triggered
           /\ last'.p < THRESHOLD - NEG_THRESHOLD_GAP )
         => LET it == vad_iterators[s]
            IN  IF it.temp_end # 0
                   /\ it.current_sample + last'.n - it.temp_end >= MinSilenceSamples
                THEN /\ last'.status = "end"
                     /\ ~vad_iterators'[s].triggered
                     /\ vad_iterators'[s].temp_end = 0
                ELSE /\ last'.status = "null"
                     /\ vad_iterators'[s].triggered
                     /\ vad_iterators'[s].temp_end =
                          (IF it.temp_end # 0 THEN it.temp_end
                           ELSE it.current_sample + last'.n)]_vars

\* An end was returned to session "default", which is no longer triggered.
C3_Witness ==
    /\ last.op = "vad" /\ last.status = "end" /\ last.sid = "default"
    /\ last.p < THRESHOLD - NEG_THRESHOLD_GAP
    /\ ~vad_iterators["default"].triggered

\* C4 as stated: the timestamp of an end is the cursor after the ending chunk
\* minus the duration of the sub-threshold run.
C4_EndAtRunStart ==
    [][\A s \in SessionIds :
         Scored(s) /\ last'.status = "end" =>
           last'.ts = vad_iterators'[s].current_sample - run'[s]]_vars

\* C4 amended: the timestamp of an end is the silence mark temp_end (the
\* cursor just after the first chunk of the run scored below
\* threshold - 0.15) plus speech_pad_samples (30 ms, 480 samples) minus the
\* length of the ending chunk.
C4_EndAtPaddedMark ==
    [][\A s \in SessionIds :
         Scored(s) /\ last'.status = "end" =>
           /\ last'.has_ts
           /\ last'.ts = vad_iterators[s].temp_end + SpeechPadSamples - last'.n]_vars

\* An end was returned with a timestamp that is not the start of the run.
C4_Witness ==
    /\ last.op = "vad" /\ last.status = "end" /\ last.sid = "default"
    /\ last.has_ts
    /\ last.ts # vad_iterators["default"].current_sample - run["default"]

\* C5 as stated: the timestamp of a start is the cursor the chunk finds.
C5_StartAtCursor ==
    [][\A s \in SessionIds :
         Scored(s) /\ last'.status = "start" => last'.ts = CursorBefore(s)]_vars

\* C5 amended: the timestamp of a start is the cursor the chunk finds minus
\* speech_pad_samples (30 ms, 480 samples), and 0 when that is negative; a
\* speech chunk that is the first of a session gives start at 0.
C5_StartAtPaddedCursor ==
    [][\A s \in SessionIds :
         Scored(s) /\ last'.status = "start" =>
           /\ last'.has_ts
           /\ last'.ts = Max0(CursorBefore(s) - SpeechPadSamples)]_vars

\* A start was returned at a cursor past the padding.
C5_Witness ==
    /\ last.op = "vad" /\ last.status = "start" /\ last.sid = "default"
    /\ last.has_ts /\ last.ts > 0

\* C6: a reset of an existing session clears triggered, temp_end and
\* current_sample and keeps every other field of the iterator (threshold,
\* sampling rate, minimum silence, padding); the next call on the session,
\* when the model scores its chunk at or above threshold, returns start.
C6_ResetRestoresInitialState ==
    [][\A s \in SessionIds :
         /\ (last'.op = "reset" /\ last'.sid = s /\ Present(s)) =>
              vad_iterators'[s] =
                [vad_iterators[s] EXCEPT !.triggered = FALSE, !.temp_end = 0,
                                         !.current_sample = 0]
         /\ (Scored(s) /\ after_reset[s] /\ last'.p >= THRESHOLD) =>
              /\ last'.status = "start"
              /\ vad_iterators'[s].triggered]_vars

\* A session that had reported a start was reset, and the next chunk, scored
\* at threshold, reported a start again.
C6_Witness ==
    /\ last.op = "vad" /\ last.sid = "default" /\ last.fresh
    /\ last.p >= THRESHOLD /\ last.status = "start"
    /\ ev_life["default"] = "start"
    /\ vad_iterators["default"].threshold = THRESHOLD

\* C7 as stated: the cursor of a session never decreases, whatever calls are
\* applied to it.
C7_CursorNeverDecreases ==
    [][\A s \in SessionIds :
         Present(s) =>
           vad_iterators'[s].current_sample >= vad_iterators[s].current_sample]_vars

\* C7 amended: no /vad call decreases the cursor of a session; a reset of the
\* session sets it to 0, and that is the only step that decreases it.
C7_CursorDecreasesOnlyByReset ==
    [][\A s \in SessionIds :
         Present(s) =>
           IF last'.op = "reset" /\ last'.sid = s
           THEN vad_iterators'[s].current_sample = 0
           ELSE vad_iterators'[s].current_sample >= vad_iterators[s].current_sample]_vars

\* A session whose cursor had advanced was processed again and advanced on.
C7_Witness ==
    /\ last.op = "vad" /\ last.sid = "default" /\ last.called /\ last.n > 0
    /\ vad_iterators["default"].current_sample > last.n

\* C8 as stated: when the model raises during a /vad call the response is
\* 500 and the session is as it was before the call; a session the call
\* created is in its initial state.
C8_FailedCallKeepsState ==
    [][\A s \in SessionIds :
         (last'.op = "vad" /\ last'.sid = s /\ last'.called /\ last'.code # 200) =>
           /\ last'.code = 500
           /\ IF Present(s)
              THEN vad_iterators'[s] = vad_iterators[s]
              ELSE vad_iterators'[s] \in {NoIter, NewVADIterator}]_vars

\* C9 as stated: a /vad request whose audio_data is not valid base64, is not
\* a whole number of 16-bit samples or holds no sample is answered 400 and
\* never reaches the model.
C9_InvalidAudioIs400 ==
    (last.op = "vad" /\ last.invalid) => (last.code = 400 /\ ~last.called)

\* C10 as stated: a /vad or /reset call for one session leaves unchanged
\* everything that decides the events of another session: that session's
\* iterator and the state of the model that scores its chunks.
C10_OtherSessionsUntouched ==
    [][\A a \in SessionIds, b \in SessionIds :
         (a # b /\ last'.op \in {"vad", "reset"} /\ last'.sid = a /\ Present(b)) =>
           /\ vad_iterators'[b] = vad_iterators[b]
           /\ model_ctx' = model_ctx]_vars

\* The step is a /reset call on session s.
ResetOn(s) == last'.op = "reset" /\ last'.sid = s

\* The ids a /reset call can name: the session ids, and a value that cannot
\* be a key of the session table.
ResetIds == SessionIds \cup {"unhashable"}

HasSession(s) == s \in SessionIds /\ Present(s)

\* C13: a reset for an id that has no session answers {status: reset} and
\* changes nothing: no session is created for the id, every session is as
\* it was, and the shared model is not reset.
C13_ResetUnknownIsNoOp ==
    [][\A s \in ResetIds :
         (ResetOn(s) /\ ~HasSession(s)) =>
           /\ last'.code = 200 /\ last'.status = "reset"
           /\ vad_iterators' = vad_iterators
           /\ model_ctx' = model_ctx]_vars

\* C13, amended: a reset for an id that has no session changes nothing; it
\* answers {status: reset} when the id can be a key of the session table and
\* 500 with an error when it cannot.
C13_ResetUnknownChangesNothing ==
    [][\A s \in ResetIds :
         (ResetOn(s) /\ ~HasSession(s)) =>
           /\ IF s \in SessionIds
              THEN last'.code = 200 /\ last'.status = "reset"
              ELSE last'.code = 500 /\ last'.status = "error"
           /\ vad_iterators' = vad_iterators
           /\ model_ctx' = model_ctx]_vars

\* Session "s1" was reset while it did not exist, next to a session "default"
\* that holds consumed audio.
C13_Witness ==
    /\ last.op = "reset" /\ last.sid = "s1" /\ last.code = 200
    /\ ~Present("s1")
    /\ Present("default") /\ vad_iterators["default"].current_sample > 0

\* C14: a reset that directly follows a reset of the same session id answers
\* success, as the first did, and leaves the session table, every session and
\* the shared model as the first reset left them.
C14_ResetIdempotent ==
    [][\A s \in ResetIds :
         (last.op = "reset" /\ last.sid = s /\ ResetOn(s)) =>
           /\ last.code = 200 /\ last'.code = 200
           /\ last.status = "reset" /\ last'.status = "reset"
           /\ vad_iterators' = vad_iterators
           /\ model_ctx' = model_ctx]_vars

\* C14, amended: a reset that directly follows a reset of the same session id
\* leaves the session table, every session and the shared model as the first
\* reset left them and is answered as the first was: {status: reset} when the
\* id can be a key of the session table, 500 with an error when it cannot.
C14_ResetTwiceAsOnce ==
    [][\A s \in ResetIds :
         (last.op = "reset" /\ last.sid = s /\ ResetOn(s)) =>
           /\ last'.code = last.code /\ last'.status = last.status
           /\ IF s \in SessionIds
              THEN last'.code = 200 /\ last'.status = "reset"
              ELSE last'.code = 500 /\ last'.status = "error"
           /\ vad_iterators' = vad_iterators
           /\ model_ctx' = model_ctx]_vars

\* An existing session that had reported a start was reset twice in a row.
C14_Witness ==
    /\ last.op = "reset" /\ last.sid = "default" /\ last.fresh
    /\ Present("default")
    /\ ev_life["default"] = "start"

\* The phase a call on session s finds: SILENCE when the call creates it.
TriggeredBefore(s) == Present(s) /\ vad_iterators[s].triggered

\* C18: a /vad call that the model scored returns exactly one of start, end
\* and none (null), and the result is the phase change of the call: start
\* exactly when triggered goes FALSE to TRUE, end exactly when it goes TRUE
\* to FALSE, none exactly when it is unchanged; a chunk scored below
\* threshold in SILENCE returns none and leaves the session in SILENCE.
C18_EventIsPhaseChange ==
    [][\A s \in SessionIds :
         Scored(s) =>
           LET pre  == TriggeredBefore(s)
               post == vad_iterators'[s].triggered
           IN  /\ last'.status \in {"start", "end", "null"}
               /\ last'.has_ts = (last'.status # "null")
               /\ (last'.status = "start") = (~pre /\ post)
               /\ (last'.status = "end")   = (pre /\ ~post)
               /\ (last'.status = "null")  = (pre = post)
               /\ (~pre /\ last'.p < THRESHOLD) => (last'.status = "null" /\ ~post)]_vars

\* A chunk scored below threshold was fed to session "default" in SILENCE,
\* after the session had been through speech: none, and still SILENCE.
C18_Witness ==
    /\ last.op = "vad" /\ last.sid = "default" /\ last.code = 200
    /\ last.p < THRESHOLD /\ last.status = "null"
    /\ ~vad_iterators["default"].triggered
    /\ ev_since["default"] = "end"

\* C20: a /vad request rejected before the session is resolved (audio_data
\* missing, or b64decode or np.frombuffer raising) adds no session and leaves
\* every session and the shared model as they were.
C20_RejectedVadChangesNothing ==
    [][(last'.op = "vad" /\ ~last'.called) =>
         /\ last'.code \in {400, 500}
         /\ vad_iterators' = vad_iterators
         /\ model_ctx' = model_ctx]_vars

\* An undecodable payload was sent for session "s1", which does not exist,
\* next to a session "default" that is in speech.
C20_Witness ==
    /\ last.op = "vad" /\ last.sid = "s1" /\ ~last.called /\ last.invalid
    /\ last.code = 500
    /\ ~Present("s1")
    /\ Present("default") /\ vad_iterators["default"].triggered

\* The iterator a thread has fetched and works on.
Holding(t) ==
    c_thr[t].op = "vad"
    /\ c_thr[t].pc \notin {"idle", "lookup", "create", "store", "fetch"}

\* C11: under parallel requests each session id is served by one iterator:
\* a call that has resolved its session works on the iterator the table
\* holds for that id, and every iterator has the default parameters.
C11_OneSessionPerId ==
    /\ \A t \in Threads : Holding(t) => c_thr[t].it = c_table[c_thr[t].sid]
    /\ \A o \in ObjIds :
         c_heap[o] # NoIter =>
            /\ c_heap[o].threshold = THRESHOLD
            /\ c_heap[o].sampling_rate = SAMPLING_RATE
            /\ c_heap[o].min_silence_samples = MinSilenceSamples

\* One call handled alone on iterator it (NoIter when the session is absent).
SerialCall(it, r) ==
    IF r.op = "reset"
    THEN [ it |-> IF it = NoIter THEN NoIter ELSE ResetStates(it),
           status |-> "reset", has_ts |-> FALSE, ts |-> 0 ]
    ELSE LET it0 == IF it = NoIter THEN NewVADIterator ELSE it
             res == Decide(Advance(it0, r.n), r.n, r.p)
         IN  IF r.code = 500
             THEN [ it |-> Advance(it0, r.n),
                    status |-> "error", has_ts |-> FALSE, ts |-> 0 ]
             ELSE
             [ it |-> res.it,
               status |-> IF res.out.kind = "none" THEN "null" ELSE res.out.kind,
               has_ts |-> res.out.kind # "none", ts |-> res.out.ts ]

Answer(x) == [status |-> x.status, has_ts |-> x.has_ts, ts |-> x.ts]

\* Final iterator and the two answers when a's call runs wholly before b's.
SerialOrder(a, b) ==
    LET r1 == SerialCall(c_base[c_thr[a].sid], c_thr[a])
        r2 == SerialCall(r1.it, c_thr[b])
    IN  [ it |-> r2.it, first |-> Answer(r1), second |-> Answer(r2) ]

\* What the two parallel calls produced, a's answer first.
Outcome(a, b) ==
    [ it |-> c_heap[c_table[c_thr[a].sid]],
      first |-> Answer(c_thr[a]), second |-> Answer(c_thr[b]) ]

\* C12: calls are not mutually excluded: a request that has begun can always
\* run its next statement, whatever the other request is doing.
C12_NoMutualExclusion ==
    \A t \in Threads : c_thr[t].pc \notin {"idle", "done"} => ENABLED CStep(t)

\* Two calls on the same existing session have both returned and the final
\* state with the two answers is the result of neither serial order.
C12_Witness ==
    /\ c_thr["t1"].pc = "done" /\ c_thr["t2"].pc = "done"
    /\ c_thr["t1"].sid = c_thr["t2"].sid
    /\ c_thr["t1"].sid \in SessionIds
    /\ c_base[c_thr["t1"].sid] # NoIter
    /\ Outcome("t1", "t2") # SerialOrder("t1", "t2")
    /\ [ it |-> Outcome("t1", "t2").it, first |-> Outcome("t1", "t2").second,
         second |-> Outcome("t1", "t2").first ] # SerialOrder("t2", "t1")

\* C15: every file /recognize staged has had its removal attempted by the
\* time its request has ended: a file of an answered request that is still
\* in the temporary directory is one os.remove was called on.
C15_StagedFileRemoved ==
    \A r \in asr_files : asr_req[r].pc = "done" => r \in asr_tried

\* C16: the file of a /tts response is on disk for as long as the response
\* is being sent, and every file of an answered request left on disk belongs
\* to a response still being sent or is one os.remove was called on.
C16_TempFileDeletedAfterClose ==
    /\ \A r \in 1..MaxTtsRequests : tts_stream[r] = "sending" => r \in tts_files
    /\ \A r \in tts_files :
         tts_req[r].pc = "done" => tts_stream[r] = "sending" \/ r \in tts_tried

\* C17: a /tts request whose text is missing, empty or blank is answered 400
\* in the step that receives it, without creating an event loop, invoking
\* synthesis or creating a file, then or later.
C17_RejectedTextIs400 ==
    [][ \A r \in 1..MaxTtsRequests :
          tts_req'[r].text \in RejectedTexts
          => /\ tts_req'[r].pc = "done" /\ tts_req'[r].code = 400
             /\ ~tts_req'[r].synth
             /\ tts_loop'[r] = "none" /\ tts_stream'[r] = "none"
             /\ r \notin tts_files'
             /\ tts_req[r].pc = "none"
                  => UNCHANGED <<tts_files, tts_tried, tts_loop, tts_stream>> ]_vars

\* A blank text was rejected while an earlier request was waiting for its
\* synthesis with its file on disk.
C17_Witness ==
    /\ tts_last.op = "reject" /\ tts_last.text = "blank" /\ tts_last.code = 400
    /\ \E r \in 1..MaxTtsRequests :
         /\ tts_req[r].text = "blank" /\ tts_req[r].code = 400
         /\ r > 1 /\ tts_req[r - 1].pc = "save"
    /\ tts_files # {}

\* C19: once a /tts request has returned, the event loop it created is
\* closed and is not installed as the current loop.
C19_LoopClosedAfterRequest ==
    /\ \A r \in 1..MaxTtsRequests : tts_req[r].pc = "done" => tts_loop[r] # "open"
    /\ ~tts_last.installed

====
